---- MODULE Spec2Model ----
(***************************************************************************)
(* Model of the orderbook server of the exchange: one trading pair's       *)
(* Orderbook (orderbook/OrderbookManager.ts, class Orderbook), its two     *)
(* PriceLevelTree indexes (data-structures/PriceLevelTree.ts) and the      *)
(* OrderbookManager handlers processOrder and cancelOrder that drive it.   *)
(*                                                                         *)
(* Quantities and prices are JavaScript numbers in the source; here they   *)
(* are integers (quantities counted in units of the pair's minOrderSize).  *)
(* Order ids (uuidv4 in the source) are drawn from a counter, so a smaller *)
(* id is an order that was created earlier.  The uuid of a Fill is a token *)
(* that tells the call and the draw it comes from.  Timestamps are left    *)
(* out.                                                                    *)
(***************************************************************************)
EXTENDS Integers, Sequences, FiniteSets, TLC

\* ------------------------------------------------------------------ bounds
MaxOrders == 2
MaxPrice == 2
MaxQty == 2
\* orders of the same-price queue scenarios (SpecQueue)
MaxQueueOrders == 4
\* orders of the overlapping-call scenarios (SpecAsync)
MaxAsyncOrders == 2
Users == {"u1", "u2"}

\* --------------------------------------------------------------- constants
\* `null` of getBestPrice; every price held in an index is > 0
NoPrice == 0
\* `undefined`, the value of level.orderIds[0] on an empty list
NoOrderId == 0
\* orderId "invalid" of the result for an unknown trading pair
InvalidOrderId == -1
\* the literal "market" that createFill puts in place of the resting order id
MarketId == -2
\* default depth of getSnapshot
DefaultDepth == 20
\* direct addOrder calls on the price level trees in one behaviour
MaxTreeCalls == 2
\* calls of the risk manager and the trade executor in one behaviour
MaxRiskCalls == 2
\* the demo balance of a new position, scaled down to the model's quantities
DefaultBalance == 3
\* fee amounts and fee rates are counted in 1/FeeUnit
FeeUnit == 10000
\* feeRate = 0.001
DefaultFeeRate == 10
\* the greatest fee rate setFeeRate accepts, 0.01
MaxFeeRate == 100

\* the trading pair served by the modelled Orderbook, sizes in units of
\* minOrderSize and the upper size scaled down to the bound
TradingPair == [symbol |-> "BTCUSD", minOrderSize |-> 1, maxOrderSize |-> MaxQty]

Symbols == {"BTCUSD", "XXXUSD"}
\* a user whose id starts with "vip_"
VipUsers == {"vip_1"}
\* the users that hold a position
Traders == Users \cup VipUsers
Sides == {"buy", "sell"}
OrderTypes == {"limit", "market"}
TimeInForces == {"GTC", "IOC", "FOK"}

Min(a, b) == IF a <= b THEN a ELSE b

\* Map.set / Map.delete on a function used as a Map
MapSet(m, k, v) == [x \in (DOMAIN m) \cup {k} |-> IF x = k THEN v ELSE m[x]]
MapDelete(m, k) == [x \in (DOMAIN m) \ {k} |-> m[x]]
EmptyMap == [x \in {} |-> 0]

\* Array.prototype.filter((x) => x !== v)
RECURSIVE FilterOut(_, _)
FilterOut(s, v) ==
  IF s = <<>> THEN <<>>
  ELSE IF Head(s) = v THEN FilterOut(Tail(s), v)
       ELSE <<Head(s)>> \o FilterOut(Tail(s), v)

\* ---------------------------------------------------------- PriceLevelTree
NewTree(isAscending) ==
  [levels |-> EmptyMap, sortedPrices |-> <<>>, isAscending |-> isAscending]

\* index at which insertSorted splices the price in (0-based, as in the source)
RECURSIVE InsertIndex(_, _, _, _)
InsertIndex(sortedPrices, price, isAscending, i) ==
  IF i >= Len(sortedPrices) THEN i
  ELSE IF isAscending /\ price < sortedPrices[i + 1] THEN i
  ELSE IF ~isAscending /\ price > sortedPrices[i + 1] THEN i
  ELSE InsertIndex(sortedPrices, price, isAscending, i + 1)

\* insertSorted pushing the price at the end of the list
InsertSortedAtEnd(sortedPrices, price, isAscending) == Append(sortedPrices, price)

InsertSorted(sortedPrices, price, isAscending) ==
  LET insertIndex == InsertIndex(sortedPrices, price, isAscending, 0)
  IN  SubSeq(sortedPrices, 1, insertIndex) \o <<price>>
        \o SubSeq(sortedPrices, insertIndex + 1, Len(sortedPrices))

TreeAddOrder(tree, price, quantity, orderId) ==
  IF price \in DOMAIN tree.levels
  THEN LET level == tree.levels[price]
       IN  [tree EXCEPT !.levels[price] =
              [level EXCEPT !.totalQuantity = level.totalQuantity + quantity,
                            !.orderCount = level.orderCount + 1,
                            !.orderIds = Append(level.orderIds, orderId)]]
  ELSE [tree EXCEPT
          !.levels = MapSet(tree.levels, price,
                            [price |-> price, totalQuantity |-> quantity,
                             orderCount |-> 1, orderIds |-> <<orderId>>]),
          !.sortedPrices = InsertSorted(tree.sortedPrices, price, tree.isAscending)]

\* the test that makes removeOrder drop the level
LevelIsEmpty(level) == level.totalQuantity <= 0 \/ level.orderCount <= 0

TreeRemoveOrder(tree, price, quantity, orderId) ==
  IF price \notin DOMAIN tree.levels THEN tree
  ELSE LET old == tree.levels[price]
           level == [old EXCEPT !.totalQuantity = old.totalQuantity - quantity,
                                !.orderCount = old.orderCount - 1,
                                !.orderIds = FilterOut(old.orderIds, orderId)]
       IN  IF LevelIsEmpty(level)
           THEN [tree EXCEPT !.levels = MapDelete(tree.levels, price),
                             !.sortedPrices = FilterOut(tree.sortedPrices, price)]
           ELSE [tree EXCEPT !.levels[price] = level]

GetBestPrice(tree) ==
  IF Len(tree.sortedPrices) = 0 THEN NoPrice ELSE tree.sortedPrices[1]

IsEmpty(tree) == Len(tree.sortedPrices) = 0

\* getTopLevels(n) followed by the map of getSnapshot
RECURSIVE TopLevelsOf(_, _)
TopLevelsOf(tree, prices) ==
  IF prices = <<>> THEN <<>>
  ELSE LET level == tree.levels[Head(prices)]
           rest == TopLevelsOf(tree, Tail(prices))
       IN  IF level.totalQuantity > 0
           THEN <<[price |-> level.price, quantity |-> level.totalQuantity,
                   orderCount |-> level.orderCount]>> \o rest
           ELSE rest

GetTopLevels(tree, n) ==
  TopLevelsOf(tree, SubSeq(tree.sortedPrices, 1, Min(n, Len(tree.sortedPrices))))

\* --------------------------------------------------------------- Orderbook
\* the value a field has when the source leaves it undefined
Undefined == "undefined"

\* stands for `undefined` where the source reads an Order that is not there
NoOrder ==
  [orderId |-> NoOrderId, userId |-> Undefined, tradingPair |-> Undefined,
   side |-> Undefined, orderType |-> Undefined, price |-> 0, quantity |-> 0,
   filledQuantity |-> 0, remainingQuantity |-> 0, status |-> Undefined,
   timeInForce |-> Undefined, sequenceNumber |-> 0]

\* the Order object processOrder builds from the request
NewOrder(orderId, orderData) ==
  [orderId |-> orderId, userId |-> orderData.userId,
   tradingPair |-> orderData.tradingPair, side |-> orderData.side,
   orderType |-> orderData.orderType, price |-> orderData.price,
   quantity |-> orderData.quantity, filledQuantity |-> 0,
   remainingQuantity |-> orderData.quantity, status |-> "pending",
   timeInForce |-> orderData.timeInForce, sequenceNumber |-> 0]

\* averagePrice is a quotient of two numbers; it is kept as the pair
\* <<totalExecutedValue, totalExecutedQuantity>>, <<0, 1>> standing for 0
AveragePrice(totalExecutedValue, totalExecutedQuantity) ==
  IF totalExecutedQuantity > 0
  THEN <<totalExecutedValue, totalExecutedQuantity>> ELSE <<0, 1>>

OrderResult(orderId, status, executedQuantity, remainingQuantity, averagePrice,
            fills, message) ==
  [orderId |-> orderId, status |-> status, executedQuantity |-> executedQuantity,
   remainingQuantity |-> remainingQuantity, averagePrice |-> averagePrice,
   fills |-> fills, message |-> message]

Rejected(order, message) ==
  OrderResult(order.orderId, "rejected", 0, order.quantity, <<0, 1>>, <<>>, message)

\* validateOrder without the check of the maximum size
ValidateOrderNoMaximum(order) ==
  IF order.quantity < TradingPair.minOrderSize THEN "Order size below minimum"
  ELSE IF order.orderType = "limit" /\ order.price <= 0
       THEN "Limit orders must have a positive price"
  ELSE ""

\* validateOrder: the message of the first failed check, "" when the order is valid
ValidateOrder(order) ==
  IF order.quantity < TradingPair.minOrderSize THEN "Order size below minimum"
  ELSE IF order.quantity > TradingPair.maxOrderSize THEN "Order size above maximum"
  ELSE IF order.orderType = "limit" /\ order.price <= 0
       THEN "Limit orders must have a positive price"
  ELSE ""

\* uuidv4() for a fill: a value no other draw returns, told apart by the call
\* (the order being processed) and the number of fills the call created before
Uuidv4(orderId, drawn) == <<"uuid", orderId, drawn + 1>>

CreateFill(order, price, quantity, drawn) ==
  [price |-> price, quantity |-> quantity,
   tradeId |-> Uuidv4(order.orderId, drawn),
   buyerOrderId |-> IF order.side = "buy" THEN order.orderId ELSE MarketId,
   sellerOrderId |-> IF order.side = "sell" THEN order.orderId ELSE MarketId,
   buyerUserId |-> IF order.side = "buy" THEN order.userId ELSE Undefined,
   sellerUserId |-> IF order.side = "sell" THEN order.userId ELSE Undefined]

\* updatePriceLevel that marks a filled order and keeps it in the registry
UpdatePriceLevelKeeping(tree, ords, gone, price, quantity, orderId) ==
  LET newTree == TreeRemoveOrder(tree, price, quantity, orderId)
  IN  IF orderId \in DOMAIN ords
      THEN LET old == ords[orderId]
               upd == [old EXCEPT
                         !.filledQuantity = old.filledQuantity + quantity,
                         !.remainingQuantity = old.remainingQuantity - quantity]
           IN  IF upd.remainingQuantity <= 0
               THEN [tree |-> newTree,
                     orders |-> [ords EXCEPT ![orderId] = [upd EXCEPT !.status = "filled"]],
                     dropped |-> MapSet(gone, orderId, [upd EXCEPT !.status = "filled"])]
               ELSE [tree |-> newTree, orders |-> [ords EXCEPT ![orderId] = upd],
                     dropped |-> gone]
      ELSE [tree |-> newTree, orders |-> ords, dropped |-> gone]

\* updatePriceLevel, on the opposite tree and the registry; `gone` collects the
\* Order objects the running handler has deleted from the registry, as last written
UpdatePriceLevel(tree, ords, gone, price, quantity, orderId) ==
  LET newTree == TreeRemoveOrder(tree, price, quantity, orderId)
  IN  IF orderId \in DOMAIN ords
      THEN LET old == ords[orderId]
               upd == [old EXCEPT
                         !.filledQuantity = old.filledQuantity + quantity,
                         !.remainingQuantity = old.remainingQuantity - quantity]
           IN  IF upd.remainingQuantity <= 0
               THEN [tree |-> newTree, orders |-> MapDelete(ords, orderId),
                     dropped |-> MapSet(gone, orderId, [upd EXCEPT !.status = "filled"])]
               ELSE [tree |-> newTree, orders |-> [ords EXCEPT ![orderId] = upd],
                     dropped |-> gone]
      ELSE [tree |-> newTree, orders |-> ords, dropped |-> gone]

\* the quantity of one fill, as both match loops compute it
FillQuantity(remainingQuantity, level) == Min(remainingQuantity, level.totalQuantity)

\* level.orderIds[0]
HeadOrderId(level) == IF Len(level.orderIds) = 0 THEN NoOrderId ELSE level.orderIds[1]

\* One iteration of a match loop from `const level` on (the two loops share
\* this text).  st holds the loop's locals and the parts of the book it
\* writes; st.matched logs, per iteration, the arguments of updatePriceLevel
\* with the resting Order as it was before the call.
MatchStepWith(st, order, bestPrice, level, fillQuantity, orderId, upd) ==
  [opposite |-> upd.tree, orders |-> upd.orders, dropped |-> upd.dropped,
   remainingQuantity |-> st.remainingQuantity - fillQuantity,
   totalExecutedQuantity |-> st.totalExecutedQuantity + fillQuantity,
   totalExecutedValue |-> st.totalExecutedValue + fillQuantity * bestPrice,
   fills |-> Append(st.fills, CreateFill(order, bestPrice, fillQuantity,
                                      Len(st.fills))),
   matched |-> Append(st.matched,
                 [orderId |-> orderId, price |-> bestPrice,
                  quantity |-> fillQuantity,
                  takerRemaining |-> st.remainingQuantity,
                  resting |-> IF orderId \in DOMAIN st.orders
                              THEN st.orders[orderId] ELSE NoOrder,
                  listed |-> level.orderIds]),
   lastPrice |-> bestPrice]

MatchStep(st, order, bestPrice) ==
  LET level == st.opposite.levels[bestPrice]
      fillQuantity == FillQuantity(st.remainingQuantity, level)
      orderId == HeadOrderId(level)
  IN  MatchStepWith(st, order, bestPrice, level, fillQuantity, orderId,
                    UpdatePriceLevel(st.opposite, st.orders, st.dropped, bestPrice,
                                     fillQuantity, orderId))

LoopStart(book, order) ==
  [opposite |-> IF order.side = "buy" THEN book.asks ELSE book.bids,
   orders |-> book.orders, dropped |-> EmptyMap,
   remainingQuantity |-> order.quantity, totalExecutedQuantity |-> 0,
   totalExecutedValue |-> 0, fills |-> <<>>, matched |-> <<>>,
   lastPrice |-> book.lastPrice]

\* the book after a loop: the opposite tree, registry and last price written back
BookAfter(book, order, st) ==
  [bids |-> IF order.side = "buy" THEN book.bids ELSE st.opposite,
   asks |-> IF order.side = "buy" THEN st.opposite ELSE book.asks,
   orders |-> st.orders, lastPrice |-> st.lastPrice]

\* canMatch without the comparison with the limit
CanMatchAnyPrice(order, bestPrice) == bestPrice > 0

\* canMatch of executeLimitOrder
CanMatch(order, bestPrice) ==
  IF order.side = "buy" THEN bestPrice <= order.price ELSE bestPrice >= order.price

RECURSIVE MarketLoop(_, _)
MarketLoop(st, order) ==
  LET bestPrice == GetBestPrice(st.opposite)
  IN  IF ~(st.remainingQuantity > 0 /\ ~IsEmpty(st.opposite)) THEN st
      ELSE IF bestPrice = NoPrice THEN st
      ELSE IF bestPrice \notin DOMAIN st.opposite.levels THEN st
      ELSE MarketLoop(MatchStep(st, order, bestPrice), order)

RECURSIVE LimitLoop(_, _)
LimitLoop(st, order) ==
  LET bestPrice == GetBestPrice(st.opposite)
  IN  IF ~(st.remainingQuantity > 0 /\ ~IsEmpty(st.opposite)) THEN st
      ELSE IF bestPrice = NoPrice THEN st
      ELSE IF ~CanMatch(order, bestPrice) THEN st
      ELSE IF bestPrice \notin DOMAIN st.opposite.levels THEN st
      ELSE LimitLoop(MatchStep(st, order, bestPrice), order)

\* executeMarketOrder from the end of its loop on, st being the loop's outcome
MarketOutcome(book, order, st) ==
  LET averagePrice == AveragePrice(st.totalExecutedValue, st.totalExecutedQuantity)
      status == IF st.remainingQuantity = 0 THEN "filled"
                ELSE IF st.totalExecutedQuantity > 0 THEN "partially_filled"
                ELSE "rejected"
  IN  [book |-> BookAfter(book, order, st), matched |-> st.matched,
       dropped |-> st.dropped,
       result |->
         IF order.timeInForce = "IOC" /\ st.remainingQuantity > 0
         THEN OrderResult(order.orderId, "rejected", st.totalExecutedQuantity,
                          st.remainingQuantity, averagePrice, <<>>,
                          "IOC order not fully executable")
         ELSE OrderResult(order.orderId, status, st.totalExecutedQuantity,
                          st.remainingQuantity, averagePrice, st.fills, "")]

\* executeMarketOrder without the test for an empty opposite side
ExecuteMarketOrderUnchecked(book, order) ==
  MarketOutcome(book, order, MarketLoop(LoopStart(book, order), order))

ExecuteMarketOrder(book, order) ==
  IF IsEmpty(IF order.side = "buy" THEN book.asks ELSE book.bids)
  THEN [book |-> book, matched |-> <<>>, dropped |-> EmptyMap,
        result |-> Rejected(order, "No liquidity available")]
  ELSE MarketOutcome(book, order, MarketLoop(LoopStart(book, order), order))

\* the IOC branch never taken: an IOC order goes on as a GTC order does
ReturnsAsIOCNever(order) == order.timeInForce = "none"

\* the test of the IOC branch of executeLimitOrder, which returns before the
\* remainder is placed on the book
ReturnsAsIOC(order) == order.timeInForce = "IOC"

\* the GTC tail placing the whole order quantity instead of the remainder
PlaceOnBookWhole(after, order, st) ==
  IF st.remainingQuantity > 0
  THEN [after EXCEPT
          !.orders = MapSet(after.orders, order.orderId,
                            [order EXCEPT !.status = "open"]),
          !.bids = IF order.side = "buy"
                   THEN TreeAddOrder(after.bids, order.price, order.quantity,
                                     order.orderId)
                   ELSE after.bids,
          !.asks = IF order.side = "buy" THEN after.asks
                   ELSE TreeAddOrder(after.asks, order.price, order.quantity,
                                     order.orderId)]
  ELSE after

\* the GTC tail of executeLimitOrder: the remainder is placed on the book
PlaceOnBook(after, order, st) ==
  LET updatedOrder ==
        [order EXCEPT !.filledQuantity = st.totalExecutedQuantity,
                      !.remainingQuantity = st.remainingQuantity,
                      !.status = IF st.totalExecutedQuantity > 0
                                 THEN "partially_filled" ELSE "open"]
  IN  IF st.remainingQuantity > 0
      THEN [after EXCEPT
              !.orders = MapSet(after.orders, order.orderId, updatedOrder),
              !.bids = IF order.side = "buy"
                       THEN TreeAddOrder(after.bids, order.price,
                                         st.remainingQuantity, order.orderId)
                       ELSE after.bids,
              !.asks = IF order.side = "buy" THEN after.asks
                       ELSE TreeAddOrder(after.asks, order.price,
                                         st.remainingQuantity, order.orderId)]
      ELSE after

\* executeLimitOrder from the end of its loop on, st being the loop's outcome
LimitOutcome(book, order, st) ==
  LET after == BookAfter(book, order, st)
      averagePrice == AveragePrice(st.totalExecutedValue, st.totalExecutedQuantity)
  IN  IF order.timeInForce = "FOK" /\ st.remainingQuantity > 0
      THEN [book |-> after, matched |-> st.matched, dropped |-> st.dropped,
            result |-> Rejected(order, "FOK order not fully executable")]
      ELSE IF ReturnsAsIOC(order)
      THEN [book |-> after, matched |-> st.matched, dropped |-> st.dropped,
            result |-> OrderResult(order.orderId,
                         IF st.totalExecutedQuantity = order.quantity
                         THEN "filled" ELSE "partially_filled",
                         st.totalExecutedQuantity, st.remainingQuantity,
                         averagePrice, st.fills, "")]
      ELSE [book |-> PlaceOnBook(after, order, st), matched |-> st.matched,
            dropped |-> st.dropped,
            result |-> OrderResult(order.orderId,
                         IF st.remainingQuantity = 0 THEN "filled"
                         ELSE IF st.totalExecutedQuantity > 0 THEN "partially_filled"
                         ELSE "open",
                         st.totalExecutedQuantity, st.remainingQuantity,
                         averagePrice, st.fills, "")]

\* executeLimitOrder without its match loop
ExecuteLimitOrderUnmatched(book, order) ==
  LimitOutcome(book, order, LoopStart(book, order))

ExecuteLimitOrder(book, order) ==
  LimitOutcome(book, order, LimitLoop(LoopStart(book, order), order))

\* Orderbook.addOrder (nothing in its try block throws, so the catch is dead)
AddOrder(book, order) ==
  LET message == ValidateOrder(order)
  IN  IF message # ""
      THEN [book |-> book, matched |-> <<>>, dropped |-> EmptyMap,
            result |-> Rejected(order, message)]
      ELSE IF order.orderType = "market" THEN ExecuteMarketOrder(book, order)
      ELSE ExecuteLimitOrder(book, order)

\* cancelOrder returning true without looking the order up
CancelOrderBookBlind(book, orderId) ==
  [book |-> book, cancelled |-> TRUE, dropped |-> EmptyMap]

\* Orderbook.cancelOrder
CancelOrderBook(book, orderId) ==
  IF orderId \notin DOMAIN book.orders
  THEN [book |-> book, cancelled |-> FALSE, dropped |-> EmptyMap]
  ELSE LET order == book.orders[orderId]
       IN  [cancelled |-> TRUE,
            dropped |-> MapSet(EmptyMap, orderId, [order EXCEPT !.status = "cancelled"]),
            book |-> [book EXCEPT
              !.bids = IF order.side = "buy"
                       THEN TreeRemoveOrder(book.bids, order.price,
                                            order.remainingQuantity, orderId)
                       ELSE book.bids,
              !.asks = IF order.side = "buy" THEN book.asks
                       ELSE TreeRemoveOrder(book.asks, order.price,
                                            order.remainingQuantity, orderId),
              !.orders = MapDelete(book.orders, orderId)]]

GetSnapshot(book, depth) ==
  [tradingPair |-> TradingPair.symbol, bids |-> GetTopLevels(book.bids, depth),
   asks |-> GetTopLevels(book.asks, depth)]

\* an order id as a template string renders it in a channel or key name: the
\* uuid of an order, or "market" on the side createFill leaves without an order
OrderIdText(id) == IF id = MarketId THEN "market" ELSE "order-" \o ToString(id)

\* ------------------------------------------------------------ RiskManager
\* Math.max
Max(a, b) == IF a >= b THEN a ELSE b

\* the position getUserPosition creates on first use, the demo balance scaled
\* down to the quantities of the model
DefaultPosition ==
  [baseBalance |-> DefaultBalance, quoteBalance |-> DefaultBalance,
   lockedBase |-> 0, lockedQuote |-> 0, dailyVolume |-> 0, openOrderCount |-> 0]

\* userPositions.get(`${userId}:${tradingPair}`) for the modelled pair; a
\* position not created yet reads as the one getUserPosition would create
GetUserPosition(positions, userId) == positions[userId]

UpdateUserPosition(positions, userId, side, quantity, price) ==
  LET userPos == GetUserPosition(positions, userId)
      tradeValue == quantity * price
  IN  [positions EXCEPT ![userId] =
         [userPos EXCEPT
            !.baseBalance = IF side = "buy" THEN @ + quantity ELSE @ - quantity,
            !.quoteBalance = IF side = "buy" THEN @ - tradeValue ELSE @ + tradeValue,
            !.dailyVolume = @ + tradeValue]]

\* lockFunds that locks whatever the balance is
LockFundsUnchecked(positions, userId, side, quantity, price) ==
  LET userPos == GetUserPosition(positions, userId)
      requiredQuote == quantity * price
  IN  [positions |-> [positions EXCEPT ![userId] =
                        [userPos EXCEPT
                           !.quoteBalance = IF side = "buy" THEN @ - requiredQuote ELSE @,
                           !.lockedQuote = IF side = "buy" THEN @ + requiredQuote ELSE @,
                           !.baseBalance = IF side = "buy" THEN @ ELSE @ - quantity,
                           !.lockedBase = IF side = "buy" THEN @ ELSE @ + quantity,
                           !.openOrderCount = @ + 1]],
       returned |-> TRUE]

\* lockFunds: the positions it leaves and the boolean it returns
LockFunds(positions, userId, side, quantity, price) ==
  LET userPos == GetUserPosition(positions, userId)
      requiredQuote == quantity * price
  IN  IF side = "buy" /\ userPos.quoteBalance >= requiredQuote
      THEN [positions |-> [positions EXCEPT ![userId] =
                             [userPos EXCEPT
                                !.quoteBalance = @ - requiredQuote,
                                !.lockedQuote = @ + requiredQuote,
                                !.openOrderCount = @ + 1]],
            returned |-> TRUE]
      ELSE IF side # "buy" /\ userPos.baseBalance >= quantity
      THEN [positions |-> [positions EXCEPT ![userId] =
                             [userPos EXCEPT
                                !.baseBalance = @ - quantity,
                                !.lockedBase = @ + quantity,
                                !.openOrderCount = @ + 1]],
            returned |-> TRUE]
      ELSE [positions |-> positions, returned |-> FALSE]

\* unlockFunds that leaves openOrderCount as it is
UnlockFundsKeepCount(positions, userId, side, quantity, price) ==
  LET userPos == GetUserPosition(positions, userId)
      quoteAmount == quantity * price
  IN  [positions EXCEPT ![userId] =
         [userPos EXCEPT
            !.lockedQuote = IF side = "buy" THEN @ - quoteAmount ELSE @,
            !.quoteBalance = IF side = "buy" THEN @ + quoteAmount ELSE @,
            !.lockedBase = IF side = "buy" THEN @ ELSE @ - quantity,
            !.baseBalance = IF side = "buy" THEN @ ELSE @ + quantity]]

UnlockFunds(positions, userId, side, quantity, price) ==
  LET userPos == GetUserPosition(positions, userId)
      quoteAmount == quantity * price
  IN  [positions EXCEPT ![userId] =
         [userPos EXCEPT
            !.lockedQuote = IF side = "buy" THEN @ - quoteAmount ELSE @,
            !.quoteBalance = IF side = "buy" THEN @ + quoteAmount ELSE @,
            !.lockedBase = IF side = "buy" THEN @ ELSE @ - quantity,
            !.baseBalance = IF side = "buy" THEN @ ELSE @ + quantity,
            !.openOrderCount = Max(0, @ - 1)]]

\* ----------------------------------------------------------- TradeExecutor
\* userId?.startsWith("vip_")
IsVip(userId) == userId \in VipUsers

\* calculateFee, in 1/FeeUnit of a quote unit; the VIP rate is half the rate
CalculateFee(rate, tradeValue, userId) ==
  tradeValue * (IF IsVip(userId) THEN rate \div 2 ELSE rate)

\* validateTradeExecution without the same-user check
ValidateTradeExecutionAnyUser(buyOrder, sellOrder, quantity, price) ==
  /\ ~(quantity <= 0 \/ price <= 0)
  /\ ~(buyOrder.side # "buy" \/ sellOrder.side # "sell")
  /\ buyOrder.tradingPair = sellOrder.tradingPair
  /\ ~(buyOrder.orderType = "limit" /\ price > buyOrder.price)
  /\ ~(sellOrder.orderType = "limit" /\ price < sellOrder.price)
  /\ ~(quantity > buyOrder.remainingQuantity \/ quantity > sellOrder.remainingQuantity)

ValidateTradeExecution(buyOrder, sellOrder, quantity, price) ==
  /\ ~(quantity <= 0 \/ price <= 0)
  /\ ~(buyOrder.side # "buy" \/ sellOrder.side # "sell")
  /\ buyOrder.tradingPair = sellOrder.tradingPair
  /\ ~(buyOrder.orderType = "limit" /\ price > buyOrder.price)
  /\ ~(sellOrder.orderType = "limit" /\ price < sellOrder.price)
  /\ ~(quantity > buyOrder.remainingQuantity \/ quantity > sellOrder.remainingQuantity)
  /\ buyOrder.userId # sellOrder.userId

DetermineMatchType(buyOrder, sellOrder, matchedQuantity) ==
  LET buyerFullyFilled == matchedQuantity = buyOrder.remainingQuantity
      sellerFullyFilled == matchedQuantity = sellOrder.remainingQuantity
  IN  IF buyerFullyFilled /\ sellerFullyFilled THEN "full"
      ELSE IF buyerFullyFilled THEN "partial_seller"
      ELSE IF sellerFullyFilled THEN "partial_buyer"
      ELSE "partial_both"

\* setFeeRate storing any rate
SetFeeRateAny(rate, newRate) == newRate

\* setFeeRate: the fee rate it leaves
SetFeeRate(rate, newRate) ==
  IF newRate >= 0 /\ newRate <= MaxFeeRate THEN newRate ELSE rate

\* generateTradeId: the sequence part of the id, after ++sequenceCounter
GenerateTradeId(counter) == <<"trade", counter + 1>>

\* stands for the null executeTrade returns
NoExecution == [tradeId |-> <<"trade", 0>>]

\* what updateOrdersAfterTrade does to one of the two orders; averagePrice is
\* kept as a pair <<value, quantity>> as in AveragePrice
UpdateOrderAfterTrade(order, matchedQuantity, matchedPrice) ==
  LET filled == order.filledQuantity + matchedQuantity
      remaining == order.remainingQuantity - matchedQuantity
  IN  [order EXCEPT
         !.filledQuantity = filled,
         !.remainingQuantity = remaining,
         !.averagePrice =
            <<order.averagePrice[1] * order.filledQuantity
                + matchedPrice * matchedQuantity * order.averagePrice[2],
              order.averagePrice[2] * filled>>,
         !.status = IF remaining <= 0 THEN "filled" ELSE "partially_filled"]

\* updatePositionsAfterTrade, without the market price it also records
UpdatePositionsAfterTrade(positions, tradeExecution) ==
  LET buyer == tradeExecution.buyOrder.userId
      seller == tradeExecution.sellOrder.userId
      afterBuyer ==
        IF buyer # Undefined
        THEN UpdateUserPosition(positions, buyer, "buy",
                                tradeExecution.quantity, tradeExecution.price)
        ELSE positions
  IN  IF seller # Undefined
      THEN UpdateUserPosition(afterBuyer, seller, "sell",
                              tradeExecution.quantity, tradeExecution.price)
      ELSE afterBuyer

\* TradeExecutor.publishOrderUpdate of one order of the execution record
ExecutionOrderOps(order) ==
  LET message == [type |-> "ORDER_UPDATE", order |-> order]
  IN  (IF order.userId # Undefined
       THEN << [cmd |-> "publish", channel |-> <<"user", order.userId, "orders">>,
                message |-> message] >>
       ELSE <<>>)
      \o << [cmd |-> "publish", channel |-> <<"orders", "all">>,
             message |-> message] >>

\* storeTradeExecution then publishTradeExecution: the Redis commands, in order
ExecutionOps(tradeExecution) ==
  LET message ==
        [type |-> "TRADE_EXECUTED",
         trade |-> [price |-> tradeExecution.price,
                    quantity |-> tradeExecution.quantity,
                    tradeId |-> tradeExecution.tradeId,
                    buyerOrderId |-> tradeExecution.buyOrder.orderId,
                    sellerOrderId |-> tradeExecution.sellOrder.orderId,
                    buyerUserId |-> tradeExecution.buyOrder.userId,
                    sellerUserId |-> tradeExecution.sellOrder.userId]]
  IN  << [cmd |-> "set", channel |-> <<"trade", tradeExecution.tradeId>>,
          message |-> tradeExecution],
         [cmd |-> "publish",
          channel |-> <<"market", OrderIdText(tradeExecution.buyOrder.orderId), "trades">>,
          message |-> message],
         [cmd |-> "publish", channel |-> <<"trades", "all">>, message |-> message] >>
      \o ExecutionOrderOps(tradeExecution.buyOrder)
      \o ExecutionOrderOps(tradeExecution.sellOrder)

\* executeTrade updating the orders and the positions before the store of the
\* execution record
ExecuteTradeWithUpdateFirst(valid, st, trade, redis) ==
  LET tradeValue == trade.quantity * trade.price
      tradeExecution ==
        [tradeId |-> GenerateTradeId(st.counter),
         buyOrder |-> trade.buyOrder, sellOrder |-> trade.sellOrder,
         price |-> trade.price, quantity |-> trade.quantity,
         buyerFee |-> CalculateFee(st.rate, tradeValue, trade.buyOrder.userId),
         sellerFee |-> CalculateFee(st.rate, tradeValue, trade.sellOrder.userId),
         matchType |-> DetermineMatchType(trade.buyOrder, trade.sellOrder,
                                          trade.quantity)]
  IN  IF ~valid
      THEN [execution |-> NoExecution, buyOrder |-> trade.buyOrder,
            sellOrder |-> trade.sellOrder, positions |-> st.positions,
            counter |-> st.counter, ops |-> <<>>]
      ELSE [execution |-> IF redis # "ok" THEN NoExecution ELSE tradeExecution,
            buyOrder |-> UpdateOrderAfterTrade(trade.buyOrder, trade.quantity,
                                               trade.price),
            sellOrder |-> UpdateOrderAfterTrade(trade.sellOrder, trade.quantity,
                                                trade.price),
            positions |-> UpdatePositionsAfterTrade(st.positions, tradeExecution),
            counter |-> st.counter + 1,
            ops |-> IF redis # "ok" THEN <<>> ELSE ExecutionOps(tradeExecution)]

\* executeTrade after the validation, whose verdict is `valid`, on the state
\* st of the executor and the risk manager and the arguments `trade`; redis
\* tells whether the store of the execution record succeeds.  The result holds
\* what the call returns and everything it may write.
ExecuteTradeWith(valid, st, trade, redis) ==
  LET tradeValue == trade.quantity * trade.price
      tradeExecution ==
        [tradeId |-> GenerateTradeId(st.counter),
         buyOrder |-> trade.buyOrder, sellOrder |-> trade.sellOrder,
         price |-> trade.price, quantity |-> trade.quantity,
         buyerFee |-> CalculateFee(st.rate, tradeValue, trade.buyOrder.userId),
         sellerFee |-> CalculateFee(st.rate, tradeValue, trade.sellOrder.userId),
         matchType |-> DetermineMatchType(trade.buyOrder, trade.sellOrder,
                                          trade.quantity)]
  IN  IF ~valid
      THEN [execution |-> NoExecution, buyOrder |-> trade.buyOrder,
            sellOrder |-> trade.sellOrder, positions |-> st.positions,
            counter |-> st.counter, ops |-> <<>>]
      ELSE IF redis # "ok"
      THEN [execution |-> NoExecution, buyOrder |-> trade.buyOrder,
            sellOrder |-> trade.sellOrder, positions |-> st.positions,
            counter |-> st.counter + 1, ops |-> <<>>]
      ELSE [execution |-> tradeExecution,
            buyOrder |-> UpdateOrderAfterTrade(trade.buyOrder, trade.quantity,
                                               trade.price),
            sellOrder |-> UpdateOrderAfterTrade(trade.sellOrder, trade.quantity,
                                                trade.price),
            positions |-> UpdatePositionsAfterTrade(st.positions, tradeExecution),
            counter |-> st.counter + 1,
            ops |-> ExecutionOps(tradeExecution)]

ExecuteTrade(st, trade, redis) ==
  ExecuteTradeWith(ValidateTradeExecution(trade.buyOrder, trade.sellOrder,
                                          trade.quantity, trade.price),
                   st, trade, redis)

\* ------------------------------------------------------- OrderbookManager
VARIABLES
  bids,        \* Orderbook.bids, a PriceLevelTree(false)
  asks,        \* Orderbook.asks, a PriceLevelTree(true)
  orders,      \* Orderbook.orders, the registry: orderId -> Order
  lastPrice,   \* Orderbook.lastPrice
  nextId,      \* the next fresh order id
  lastOp,      \* the handler that ran last and its request
  incoming,    \* the Order object the last processOrder built
  result,      \* the OrderResult the last processOrder returned
  matched,     \* the updatePriceLevel calls of the last processOrder
  dropped,     \* the Order objects the last handler deleted from the registry
  cancelled,   \* what the last cancelOrder returned
  redisOps,    \* the Redis commands the last step issued, in order
  inflight,    \* the calls suspended at an await on a Redis reply, oldest first
  userPositions,   \* RiskManager.userPositions, for the modelled pair
  sequenceCounter, \* TradeExecutor.sequenceCounter
  feeRate,         \* TradeExecutor.feeRate, in 1/FeeUnit
  ledger,          \* history: per user, what the settled executions add up to
  riskCalls        \* history: the calls of the risk manager and the executor

vars == <<bids, asks, orders, lastPrice, nextId, lastOp, incoming,
          result, matched, dropped, cancelled, redisOps, inflight,
          userPositions, sequenceCounter, feeRate, ledger, riskCalls>>

\* the state of the risk manager and the trade executor
riskVars == <<userPositions, sequenceCounter, feeRate, ledger, riskCalls>>

Book == [bids |-> bids, asks |-> asks, orders |-> orders, lastPrice |-> lastPrice]

NoResult == OrderResult(NoOrderId, Undefined, 0, 0, <<0, 1>>, <<>>, "")

Init ==
  /\ bids = NewTree(FALSE)
  /\ asks = NewTree(TRUE)
  /\ orders = EmptyMap
  /\ lastPrice = 0
  /\ nextId = 1
  /\ lastOp = [kind |-> "none"]
  /\ incoming = NoOrder
  /\ result = NoResult
  /\ matched = <<>>
  /\ dropped = EmptyMap
  /\ cancelled = FALSE
  /\ redisOps = <<>>
  /\ inflight = <<>>
  /\ userPositions = [u \in Traders |-> DefaultPosition]
  /\ sequenceCounter = 0
  /\ feeRate = DefaultFeeRate
  /\ ledger = [u \in Traders |-> [base |-> 0, quote |-> 0]]
  /\ riskCalls = 0

\* publishTrade then storeTrade, for each fill in turn
RECURSIVE TradeOps(_)
TradeOps(fills) ==
  IF fills = <<>> THEN <<>>
  ELSE LET message == [type |-> "TRADE_EXECUTED", trade |-> Head(fills)]
       IN  << [cmd |-> "publish",
               channel |-> <<"market", OrderIdText(Head(fills).buyerOrderId), "trades">>,
               message |-> message],
              [cmd |-> "publish", channel |-> <<"trades", "all">>,
               message |-> message],
              [cmd |-> "lPush",
               channel |-> <<"trades", OrderIdText(Head(fills).buyerOrderId), "history">>,
               message |-> message] >>
           \o TradeOps(Tail(fills))

\* publishOrderUpdate of the NEW_ORDER message
OrderUpdateOps(order, res) ==
  LET message == [type |-> "NEW_ORDER",
                  order |-> [order EXCEPT
                    !.status = IF res.status = "accepted" THEN "open" ELSE res.status,
                    !.filledQuantity = res.executedQuantity,
                    !.remainingQuantity = res.remainingQuantity]]
  IN  (IF order.userId # Undefined
       THEN << [cmd |-> "publish", channel |-> <<"user", order.userId, "orders">>,
                message |-> message] >>
       ELSE <<>>)
      \o << [cmd |-> "publish", channel |-> <<"orders", "all">>,
             message |-> message] >>

\* publishOrderbookUpdate then storeOrderbookSnapshot
SnapshotOps(tradingPair, snapshot) ==
  << [cmd |-> "publish", channel |-> <<"market", tradingPair, "orderbook">>,
      message |-> [type |-> "ORDERBOOK_UPDATE", tradingPair |-> tradingPair,
                   snapshot |-> snapshot]],
     [cmd |-> "set", channel |-> <<"orderbook", tradingPair, "snapshot">>,
      message |-> snapshot] >>

\* the test that makes processOrder publish a snapshot
BookChanged(res) == Len(res.fills) > 0 \/ res.status = "open"

\* the requests handed to processOrder: every well-formed request within the
\* bounds, and for each check of validateOrder one request that fails it
WellFormed ==
  { r \in [tradingPair : {TradingPair.symbol}, side : Sides, orderType : OrderTypes,
           price : 0..MaxPrice, quantity : 1..MaxQty, timeInForce : TimeInForces,
           userId : Users] :
      IF r.orderType = "market" THEN r.price = 0 ELSE r.price > 0 }

Malformed ==
  { r \in [tradingPair : {TradingPair.symbol}, side : {"buy"}, orderType : {"limit"},
           price : 0..1, quantity : 0..(MaxQty + 1), timeInForce : {"GTC"},
           userId : {"u1"}] :
      \/ r.price = 1 /\ r.quantity \in {0, MaxQty + 1}
      \/ r.price = 0 /\ r.quantity = 1 }

Requests == WellFormed \cup Malformed

\* OrderbookManager.processOrder for a trading pair that has no orderbook
SubmitUnknownPair ==
  \E tradingPair \in Symbols \ {TradingPair.symbol} :
    /\ lastOp' = [kind |-> "submit", tradingPair |-> tradingPair]
    /\ incoming' = NoOrder
    /\ result' = OrderResult(InvalidOrderId, "rejected", 0, 1, <<0, 1>>,
                             <<>>, "Trading pair not found")
    /\ matched' = <<>>
    /\ dropped' = EmptyMap
    /\ cancelled' = FALSE
    /\ redisOps' = <<>>
    /\ UNCHANGED <<bids, asks, orders, lastPrice, nextId, inflight>>
    /\ UNCHANGED riskVars

\* the Redis commands of processOrder, in the order it awaits them
ProcessOrderOps(order, out) ==
  TradeOps(out.result.fills)
  \o OrderUpdateOps(order, out.result)
  \o (IF BookChanged(out.result)
      THEN SnapshotOps(order.tradingPair, GetSnapshot(out.book, DefaultDepth))
      ELSE <<>>)

\* the state processOrder leaves, out being what Orderbook.addOrder did
Processed(order, out) ==
  /\ bids' = out.book.bids
  /\ asks' = out.book.asks
  /\ orders' = out.book.orders
  /\ lastPrice' = out.book.lastPrice
  /\ nextId' = nextId + 1
  /\ lastOp' = [kind |-> "submit", tradingPair |-> order.tradingPair]
  /\ incoming' = order
  /\ result' = out.result
  /\ matched' = out.matched
  /\ dropped' = out.dropped
  /\ cancelled' = FALSE
  /\ redisOps' = ProcessOrderOps(order, out)
  /\ UNCHANGED inflight
  /\ UNCHANGED riskVars

\* OrderbookManager.processOrder on the pair's orderbook, for a request of
\* `requests`, while fewer than maxOrders orders have been created
SubmitFrom(requests, maxOrders) ==
  \E orderData \in requests :
    /\ nextId <= maxOrders
    /\ Processed(NewOrder(nextId, orderData),
                 AddOrder(Book, NewOrder(nextId, orderData)))

Submit == SubmitFrom(Requests, MaxOrders)

\* the state cancelOrder leaves, out being what Orderbook.cancelOrder did
Cancelled(orderId, tradingPair, out) ==
  /\ bids' = out.book.bids
  /\ asks' = out.book.asks
  /\ orders' = out.book.orders
  /\ lastPrice' = out.book.lastPrice
  /\ lastOp' = [kind |-> "cancel", tradingPair |-> tradingPair, orderId |-> orderId]
  /\ incoming' = NoOrder
  /\ result' = NoResult
  /\ matched' = <<>>
  /\ dropped' = out.dropped
  /\ cancelled' = out.cancelled
  /\ redisOps' = IF out.cancelled
                 THEN SnapshotOps(tradingPair, GetSnapshot(out.book, DefaultDepth))
                 ELSE <<>>
  /\ UNCHANGED <<nextId, inflight>>
  /\ UNCHANGED riskVars

\* OrderbookManager.cancelOrder on the pair's orderbook, for the id of any
\* order created so far or of none (nextId)
Cancel ==
  \E orderId \in 1..nextId :
    Cancelled(orderId, TradingPair.symbol, CancelOrderBook(Book, orderId))

\* OrderbookManager.cancelOrder for a trading pair that has no orderbook
CancelUnknownPair ==
  \E tradingPair \in Symbols \ {TradingPair.symbol} :
    Cancelled(1, tradingPair,
              [book |-> Book, cancelled |-> FALSE, dropped |-> EmptyMap])

Next == Submit \/ SubmitUnknownPair \/ Cancel \/ CancelUnknownPair

Spec == Init /\ [][Next]_vars

\* Same-price queue scenarios: good-till-cancel limit orders at one price, from
\* both users and on both sides, so that several orders queue at a level and
\* are then consumed by later orders.
QueueRequests ==
  { r \in WellFormed :
      r.orderType = "limit" /\ r.timeInForce = "GTC" /\ r.price = 1 }

SubmitQueue == SubmitFrom(QueueRequests, MaxQueueOrders)

NextQueue == SubmitQueue \/ Cancel

SpecQueue == Init /\ [][NextQueue]_vars

\* Overlapping calls.  processOrder and cancelOrder are async functions run by
\* one event loop: the code between two awaits runs without interruption, and
\* while a call awaits the reply to a Redis command other requests are served.
\* Orderbook.addOrder and Orderbook.cancelOrder are synchronous, so a call
\* runs from its start to its first Redis command in one step (BeginSubmit,
\* BeginCancel) and then, reply by reply, issues its next command (Resume).
\* SpecAsync follows the publications only: the storage commands (lPush, set)
\* that a call issues between or after them do not touch the book and are not
\* seen by subscribers, so a call is followed up to its last publication.
\* Spec and SpecQueue are the runs in which no two calls overlap.
NoSnapshot == [tradingPair |-> Undefined, bids |-> <<>>, asks |-> <<>>]

\* the publish commands among ops
RECURSIVE Publications(_)
Publications(ops) ==
  IF ops = <<>> THEN <<>>
  ELSE IF Head(ops).cmd = "publish" THEN <<Head(ops)>> \o Publications(Tail(ops))
  ELSE Publications(Tail(ops))

\* a suspended processOrder call: the publications it has still to issue
\* before the snapshot, whether it has still to take and publish the snapshot,
\* and, for the properties, the ids of the resting orders its match loop
\* deleted as filled, the number of its fills and the snapshot of the book as
\* its own step left it
Suspended(orderId, out, pending) ==
  [orderId |-> orderId, pending |-> pending,
   snapshotDue |-> BookChanged(out.result),
   after |-> GetSnapshot(out.book, DefaultDepth),
   filledIds |-> DOMAIN out.dropped,
   fills |-> Len(out.result.fills)]

\* the requests of the overlapping calls: good-till-cancel orders from one
\* user, limit orders at one price and market orders
AsyncRequests ==
  { r \in WellFormed :
      r.timeInForce = "GTC" /\ r.userId = "u1" /\ r.price <= 1 }

\* processOrder from its start to its first await on a Redis reply: the order
\* is matched and the first command (a trade event, or the order update when
\* there is no fill) is issued
BeginSubmitWith(order, out, ops) ==
  /\ bids' = out.book.bids
  /\ asks' = out.book.asks
  /\ orders' = out.book.orders
  /\ lastPrice' = out.book.lastPrice
  /\ nextId' = nextId + 1
  /\ lastOp' = [kind |-> "submit", tradingPair |-> order.tradingPair]
  /\ incoming' = order
  /\ result' = out.result
  /\ matched' = out.matched
  /\ dropped' = out.dropped
  /\ cancelled' = FALSE
  /\ redisOps' = <<Head(ops)>>
  /\ inflight' = Append(inflight, Suspended(order.orderId, out, Tail(ops)))
  /\ UNCHANGED riskVars

BeginSubmit ==
  \E orderData \in AsyncRequests :
    /\ nextId <= MaxAsyncOrders
    /\ LET order == NewOrder(nextId, orderData)
       IN  BeginSubmitWith(order, AddOrder(Book, order),
             Publications(TradeOps(AddOrder(Book, order).result.fills)
                            \o OrderUpdateOps(order, AddOrder(Book, order).result)))

\* cancelOrder from its start to its publication: a cancel that returns false
\* returns at once; one that returns true takes the snapshot and publishes it
\* before its first await
BeginCancelWith(orderId, out) ==
  /\ bids' = out.book.bids
  /\ asks' = out.book.asks
  /\ orders' = out.book.orders
  /\ lastPrice' = out.book.lastPrice
  /\ lastOp' = [kind |-> "cancel", tradingPair |-> TradingPair.symbol,
                orderId |-> orderId]
  /\ incoming' = NoOrder
  /\ result' = NoResult
  /\ matched' = <<>>
  /\ dropped' = out.dropped
  /\ cancelled' = out.cancelled
  /\ redisOps' = IF out.cancelled
                 THEN Publications(SnapshotOps(TradingPair.symbol,
                                     GetSnapshot(out.book, DefaultDepth)))
                 ELSE <<>>
  /\ UNCHANGED <<nextId, inflight>>
  /\ UNCHANGED riskVars

BeginCancel ==
  \E orderId \in 1..nextId :
    BeginCancelWith(orderId, CancelOrderBook(Book, orderId))

\* the inflight list with call i replaced by c
WithCall(i, c) == [inflight EXCEPT ![i] = c]

\* the inflight list without call i
WithoutCall(i) ==
  SubSeq(inflight, 1, i - 1) \o SubSeq(inflight, i + 1, Len(inflight))

\* the reply a suspended processOrder call awaits arrives: the call issues its
\* next publication, which for the snapshot event carries the snapshot of the
\* book as it is now, and leaves the list with its last publication
ResumeCall(i, c) ==
  /\ lastOp' = [kind |-> "resume", tradingPair |-> TradingPair.symbol,
                orderId |-> c.orderId]
  /\ IF c.pending # <<>>
     THEN /\ redisOps' = <<Head(c.pending)>>
          /\ inflight' = IF Tail(c.pending) = <<>> /\ ~c.snapshotDue
                         THEN WithoutCall(i)
                         ELSE WithCall(i, [c EXCEPT !.pending = Tail(c.pending)])
     ELSE /\ redisOps' = Publications(SnapshotOps(TradingPair.symbol,
                                        GetSnapshot(Book, DefaultDepth)))
          /\ inflight' = WithoutCall(i)
  /\ UNCHANGED <<bids, asks, orders, lastPrice, nextId, incoming, result,
                 matched, dropped, cancelled>>
  /\ UNCHANGED riskVars

Resume == \E i \in 1..Len(inflight) : ResumeCall(i, inflight[i])

NextAsync == BeginSubmit \/ BeginCancel \/ Resume

SpecAsync == Init /\ [][NextAsync]_vars

\* ------------------------------------------- RiskManager and TradeExecutor
\* an Order object handed to executeTrade
TradeOrder(orderId, userId, tradingPair, side, orderType, price, quantity) ==
  [orderId |-> orderId, userId |-> userId, tradingPair |-> tradingPair,
   side |-> side, orderType |-> orderType, price |-> price, quantity |-> quantity,
   filledQuantity |-> 0, remainingQuantity |-> quantity, status |-> "open",
   timeInForce |-> "GTC", sequenceNumber |-> 0, averagePrice |-> <<0, 1>>]

\* a limit buy order of u1 and a limit sell order of u2, as executeTrade gets them
BuyOrderOf(price, quantity) ==
  TradeOrder(1, "u1", TradingPair.symbol, "buy", "limit", price, quantity)

SellOrderOf(price, quantity) ==
  TradeOrder(2, "u2", TradingPair.symbol, "sell", "limit", price, quantity)

\* the arguments of executeTrade for two limit orders: the matched price
\* against every limit of either order, the matched quantity against every
\* remaining quantity of either order, and the largest trade
LimitTrades ==
  { [buyOrder |-> BuyOrderOf(pb, MaxQty), sellOrder |-> SellOrderOf(1, MaxQty),
     quantity |-> 1, price |-> p] : pb \in 1..MaxPrice, p \in 0..MaxPrice }
  \cup
  { [buyOrder |-> BuyOrderOf(MaxPrice, MaxQty), sellOrder |-> SellOrderOf(ps, MaxQty),
     quantity |-> 1, price |-> p] : ps \in 1..MaxPrice, p \in 0..MaxPrice }
  \cup
  { [buyOrder |-> BuyOrderOf(MaxPrice, qb), sellOrder |-> SellOrderOf(1, MaxQty),
     quantity |-> q, price |-> 1] : qb \in 1..MaxQty, q \in 0..MaxQty }
  \cup
  { [buyOrder |-> BuyOrderOf(MaxPrice, MaxQty), sellOrder |-> SellOrderOf(1, qs),
     quantity |-> q, price |-> 1] : qs \in 1..MaxQty, q \in 0..MaxQty }
  \cup
  { [buyOrder |-> BuyOrderOf(MaxPrice, MaxQty), sellOrder |-> SellOrderOf(1, MaxQty),
     quantity |-> MaxQty, price |-> MaxPrice] }

\* the orders that differ from `order` in one field: its owner, its pair, its
\* side, or its type (a market order has price 0)
OrderVariants(order) ==
  { [order EXCEPT !.userId = userId] : userId \in Traders \cup {Undefined} }
  \cup { [order EXCEPT !.tradingPair = tradingPair] : tradingPair \in Symbols }
  \cup { [order EXCEPT !.side = side] : side \in Sides }
  \cup { [order EXCEPT !.orderType = "market", !.price = 0] }

\* the arguments of executeTrade that differ from a legal limit trade of 1 @ 1
\* in one field of one order, and a trade of two orders without owner
OtherTrades ==
  { [buyOrder |-> o, sellOrder |-> SellOrderOf(1, 1), quantity |-> 1, price |-> 1] :
      o \in OrderVariants(BuyOrderOf(1, 1)) }
  \cup
  { [buyOrder |-> BuyOrderOf(1, 1), sellOrder |-> o, quantity |-> 1, price |-> 1] :
      o \in OrderVariants(SellOrderOf(1, 1)) }
  \cup
  { [buyOrder |-> [BuyOrderOf(1, 1) EXCEPT !.userId = Undefined],
     sellOrder |-> [SellOrderOf(1, 1) EXCEPT !.userId = Undefined],
     quantity |-> 1, price |-> 1] }

Trades == LimitTrades \cup OtherTrades

\* the state a call of the risk manager or the trade executor leaves: `op`
\* describes the call and what it returned
RiskCalled(op, positions, counter, entries, ops) ==
  /\ riskCalls < MaxRiskCalls
  /\ riskCalls' = riskCalls + 1
  /\ lastOp' = op
  /\ userPositions' = positions
  /\ sequenceCounter' = counter
  /\ ledger' = entries
  /\ redisOps' = ops
  /\ UNCHANGED <<bids, asks, orders, lastPrice, nextId, incoming, result,
                 matched, dropped, cancelled, inflight, feeRate>>

\* the arguments of lockFunds and unlockFunds; the price of a sell, which
\* neither reads, is 1
FundArgs ==
  { a \in [userId : Users, side : Sides, quantity : 1..MaxQty, price : 1..MaxPrice] :
      a.side = "sell" => a.price = 1 }

\* RiskManager.lockFunds
LockFundsCall ==
  \E a \in FundArgs :
    LET out == LockFunds(userPositions, a.userId, a.side, a.quantity, a.price)
    IN  RiskCalled([kind |-> "lockFunds", userId |-> a.userId, side |-> a.side,
                    quantity |-> a.quantity, price |-> a.price,
                    returned |-> out.returned, before |-> userPositions[a.userId]],
                   out.positions, sequenceCounter, ledger, <<>>)

\* RiskManager.unlockFunds
UnlockFundsCall ==
  \E a \in FundArgs :
    RiskCalled([kind |-> "unlockFunds", userId |-> a.userId, side |-> a.side,
                quantity |-> a.quantity, price |-> a.price],
               UnlockFunds(userPositions, a.userId, a.side, a.quantity, a.price),
               sequenceCounter, ledger, <<>>)

\* the ledger after a settled execution: per user, the quantity bought less
\* the quantity sold, and the quote received less the quote paid, fees
\* included, in 1/FeeUnit of a quote unit
Settled(entries, execution) ==
  LET buyer == execution.buyOrder.userId
      seller == execution.sellOrder.userId
      value == FeeUnit * execution.quantity * execution.price
      afterBuyer ==
        IF buyer # Undefined
        THEN [entries EXCEPT ![buyer] =
                [base |-> @.base + execution.quantity,
                 quote |-> @.quote - (value + execution.buyerFee)]]
        ELSE entries
  IN  IF seller # Undefined
      THEN [afterBuyer EXCEPT ![seller] =
              [base |-> @.base - execution.quantity,
               quote |-> @.quote + (value - execution.sellerFee)]]
      ELSE afterBuyer

\* TradeExecutor.executeTrade
ExecuteTradeCall ==
  \E trade \in Trades, redis \in {"ok", "error"} :
    LET out == ExecuteTrade([positions |-> userPositions, counter |-> sequenceCounter,
                             rate |-> feeRate], trade, redis)
    IN  RiskCalled([kind |-> "executeTrade", trade |-> trade, redis |-> redis,
                    execution |-> out.execution, buyOrder |-> out.buyOrder,
                    sellOrder |-> out.sellOrder],
                   out.positions, out.counter,
                   IF out.execution # NoExecution
                   THEN Settled(ledger, out.execution) ELSE ledger,
                   out.ops)

\* the rates setFeeRate is called with: below the range, its two ends, a rate
\* inside it, and above the range
FeeRates == {0 - 1, 0, DefaultFeeRate + DefaultFeeRate, MaxFeeRate, MaxFeeRate + 1}

\* TradeExecutor.setFeeRate
SetFeeRateCall ==
  \E rate \in FeeRates :
    /\ riskCalls < MaxRiskCalls
    /\ riskCalls' = riskCalls + 1
    /\ lastOp' = [kind |-> "setFeeRate", rate |-> rate]
    /\ feeRate' = SetFeeRate(feeRate, rate)
    /\ UNCHANGED <<bids, asks, orders, lastPrice, nextId, incoming, result,
                   matched, dropped, cancelled, redisOps, inflight,
                   userPositions, sequenceCounter, ledger>>

NextRisk == LockFundsCall \/ UnlockFundsCall \/ ExecuteTradeCall \/ SetFeeRateCall

SpecRisk == Init /\ [][NextRisk]_vars

\* ------------------------------------------------------- PriceLevelTree
\* the state a direct call on the two trees leaves
TreeCalled(kind, newBids, newAsks, newNextId) ==
  /\ bids' = newBids
  /\ asks' = newAsks
  /\ nextId' = newNextId
  /\ lastOp' = [kind |-> kind]
  /\ UNCHANGED <<orders, lastPrice, incoming, result, matched, dropped, cancelled,
                 redisOps, inflight>>
  /\ UNCHANGED riskVars

\* the prices of the direct calls
TreePrices == 1..(MaxPrice + 1)

\* PriceLevelTree.addOrder on the bid or the ask tree, for a new order id
TreeAddOrderCall ==
  \E price \in TreePrices, quantity \in 1..MaxQty :
    /\ nextId <= MaxTreeCalls
    /\ \/ TreeCalled("addOrder", TreeAddOrder(bids, price, quantity, nextId), asks,
                     nextId + 1)
       \/ TreeCalled("addOrder", bids, TreeAddOrder(asks, price, quantity, nextId),
                     nextId + 1)

\* PriceLevelTree.removeOrder on the bid or the ask tree, for any price,
\* quantity and order id, listed at the price or not
TreeRemoveOrderCall ==
  \E price \in TreePrices, quantity \in 1..MaxQty, orderId \in 1..nextId :
    \/ TreeCalled("removeOrder", TreeRemoveOrder(bids, price, quantity, orderId),
                  asks, nextId)
    \/ TreeCalled("removeOrder", bids,
                  TreeRemoveOrder(asks, price, quantity, orderId), nextId)

NextTree == TreeAddOrderCall \/ TreeRemoveOrderCall

SpecTree == Init /\ [][NextTree]_vars

\* ------------------------------------------------------------- properties
SeqToSet(q) == { q[i] : i \in 1..Len(q) }

\* the ids listed in the level at `price` of `tree` (none when there is no level)
ListedAt(tree, price) ==
  IF price \in DOMAIN tree.levels THEN SeqToSet(tree.levels[price].orderIds) ELSE {}

ListedIn(tree) == UNION { ListedAt(tree, price) : price \in DOMAIN tree.levels }

\* the index of the order's own side
OwnTree(order) == IF order.side = "buy" THEN bids ELSE asks

RECURSIVE SumRemaining(_)
SumRemaining(ids) ==
  IF ids = <<>> THEN 0
  ELSE (IF Head(ids) \in DOMAIN orders THEN orders[Head(ids)].remainingQuantity ELSE 0)
       + SumRemaining(Tail(ids))

LevelConsistent(level) ==
  /\ level.totalQuantity = SumRemaining(level.orderIds)
  /\ level.orderCount = Len(level.orderIds)
  /\ level.orderCount > 0
  /\ level.totalQuantity > 0

\* a processOrder call on the pair's book ran last
Submitted == lastOp.kind = "submit" /\ incoming.orderId # NoOrderId

\* C1: every price level on either side has total_quantity equal to the sum of
\* the remaining quantities of the orders it lists and order_count equal to the
\* number of orders it lists, and no level is empty or of zero quantity.
C1_LevelsConsistent ==
  /\ \A price \in DOMAIN bids.levels : LevelConsistent(bids.levels[price])
  /\ \A price \in DOMAIN asks.levels : LevelConsistent(asks.levels[price])

OrderIntegrity(order) ==
  /\ order.filledQuantity + order.remainingQuantity = order.quantity
  /\ order.filledQuantity >= 0
  /\ order.remainingQuantity >= 0
  /\ (order.status = "filled") <=> (order.remainingQuantity = 0)

\* C2: every order, in the registry or just taken out of it, has
\* filled_quantity + remaining_quantity = quantity with neither negative, and
\* has status filled exactly when its remaining quantity is 0.
C2_OrderIntegrity ==
  /\ \A id \in DOMAIN orders : OrderIntegrity(orders[id])
  /\ \A id \in DOMAIN dropped : OrderIntegrity(dropped[id])

\* C3: each fill of the match loop has the quantity min(incoming remaining,
\* remaining quantity of the resting order at the head of the best level), so
\* it never takes more than that one resting order holds.
C3_FillIsMinOfHead ==
  \A i \in 1..Len(matched) :
    /\ matched[i].quantity =
         Min(matched[i].takerRemaining, matched[i].resting.remainingQuantity)
    /\ matched[i].quantity <= matched[i].resting.remainingQuantity

\* C4: every fill executes at the limit price of the resting order it consumes,
\* and for an incoming limit order that price is never worse than its limit.
C4_FillAtRestingPrice ==
  /\ \A i \in 1..Len(matched) :
       /\ matched[i].resting.orderId = matched[i].orderId
       /\ matched[i].resting.orderId # NoOrderId
       /\ matched[i].price = matched[i].resting.price
       /\ incoming.orderType = "limit" =>
            IF incoming.side = "buy" THEN matched[i].price <= incoming.price
            ELSE matched[i].price >= incoming.price
  /\ \A i \in 1..Len(result.fills) :
       /\ Len(result.fills) = Len(matched)
       /\ result.fills[i].price = matched[i].price
       /\ result.fills[i].quantity = matched[i].quantity

\* C4 witness: a limit order was filled at a resting price better than its limit
C4_PriceImprovement ==
  /\ Submitted
  /\ incoming.orderType = "limit"
  /\ Len(result.fills) > 0
  /\ result.fills[1].price # incoming.price

\* C5: an incoming order consumes the best-priced opposite level first, and at
\* one price an earlier-accepted resting order is fully consumed before a
\* later-accepted one receives a fill: after a fill of a resting order no
\* earlier order of its side and price is left with quantity in the registry,
\* and successive fills never move to a better price.
C5_PriceTimePriority ==
  /\ \A i \in 1..Len(matched) : \A id \in DOMAIN orders :
       ~ /\ id < matched[i].orderId
         /\ orders[id].side = matched[i].resting.side
         /\ orders[id].price = matched[i].price
         /\ orders[id].remainingQuantity > 0
  /\ \A i \in 1..Len(matched) : \A j \in 1..Len(matched) :
       i < j => IF incoming.side = "buy" THEN matched[i].price <= matched[j].price
                ELSE matched[i].price >= matched[j].price

\* C6: a FOK order (limit or market) ends with executed quantity 0 or its whole
\* quantity, never partially filled.
C6_FOKAtomic ==
  (Submitted /\ incoming.timeInForce = "FOK") =>
    /\ result.executedQuantity \in {0, incoming.quantity}
    /\ result.status # "partially_filled"

\* C7: a submit that rejects a FOK order for lack of opposite quantity leaves
\* both sides' price levels, the registry and the last trade price as they were.
C7_FOKRejectNoEffect ==
  [][ ( /\ nextId' = nextId + 1
        /\ incoming'.timeInForce = "FOK"
        /\ result'.status = "rejected"
        /\ result'.message = "FOK order not fully executable" )
      => UNCHANGED <<bids, asks, orders, lastPrice>> ]_vars

\* C8: an incoming order is never filled against a resting order of the same
\* user, and no fill names the same user as buyer and seller.
C8_NoSelfTrade ==
  /\ \A i \in 1..Len(matched) : matched[i].resting.userId # incoming.userId
  /\ \A i \in 1..Len(result.fills) :
       result.fills[i].buyerUserId # result.fills[i].sellerUserId

\* C9: every order held in the registry with remaining quantity > 0 is listed in
\* the price level at its own limit price on its own side.
C9_RestingOrdersListed ==
  \A id \in DOMAIN orders :
    orders[id].remainingQuantity > 0 =>
      id \in ListedAt(OwnTree(orders[id]), orders[id].price)

\* C10: no IOC order is in the registry or listed in a price level: the
\* registry holds no IOC order, every listed id is a registered order, and an
\* IOC order just processed is in neither.
C10_IOCNeverRests ==
  /\ \A id \in DOMAIN orders : orders[id].timeInForce # "IOC"
  /\ ListedIn(bids) \cup ListedIn(asks) \subseteq DOMAIN orders
  /\ (Submitted /\ incoming.timeInForce = "IOC") =>
       /\ incoming.orderId \notin DOMAIN orders
       /\ incoming.orderId \notin ListedIn(bids) \cup ListedIn(asks)

\* C10 witness: an IOC limit order was filled in part and its remainder discarded
C10_IOCRemainderDiscarded ==
  /\ Submitted
  /\ incoming.timeInForce = "IOC"
  /\ incoming.orderType = "limit"
  /\ result.executedQuantity > 0
  /\ result.remainingQuantity > 0

\* the sum of the quantities of a snapshot side
RECURSIVE SumQuantity(_)
SumQuantity(levels) ==
  IF levels = <<>> THEN 0 ELSE Head(levels).quantity + SumQuantity(Tail(levels))

\* the sum of remainingQuantity over the registry orders of the ids in `ids`
RECURSIVE SumOver(_)
SumOver(ids) ==
  IF ids = {} THEN 0
  ELSE LET id == CHOOSE x \in ids : TRUE
       IN  orders[id].remainingQuantity + SumOver(ids \ {id})

RestingOn(side) == { id \in DOMAIN orders : orders[id].side = side }

\* C11: a snapshot whose depth covers all levels has bid quantities summing to
\* the remaining quantity of all buy orders in the registry at that instant, and
\* ask quantities summing to that of all sell orders.
C11_SnapshotConsistent ==
  /\ SumQuantity(GetSnapshot(Book, DefaultDepth).bids) = SumOver(RestingOn("buy"))
  /\ SumQuantity(GetSnapshot(Book, DefaultDepth).asks) = SumOver(RestingOn("sell"))

\* totalQuantity of the level at `price`, 0 when the tree has no such level
QuantityAt(tree, price) ==
  IF price \in DOMAIN tree.levels THEN tree.levels[price].totalQuantity ELSE 0

\* the tree with its level at `price` left out
WithoutLevel(tree, price) == MapDelete(tree.levels, price)

\* C12: a processOrder step of a valid limit GTC order leaves, when quantity
\* remains, the order in the registry and at the tail of the level at its limit
\* price on its own side, that level grown by exactly the remaining quantity
\* and the rest of that side as it was; when nothing remains its own side is
\* untouched and the registry does not hold it.  The status is filled when
\* remaining = 0, partially_filled when executed > 0 and remaining > 0, open
\* when executed = 0.
C12_GTCRemainderRests ==
  [][ ( /\ nextId' = nextId + 1
        /\ incoming'.orderType = "limit"
        /\ incoming'.timeInForce = "GTC"
        /\ ValidateOrder(incoming') = "" )
      => LET own == IF incoming'.side = "buy" THEN bids ELSE asks
             ownAfter == IF incoming'.side = "buy" THEN bids' ELSE asks'
             remaining == result'.remainingQuantity
             executed == result'.executedQuantity
         IN  /\ executed + remaining = incoming'.quantity
             /\ remaining > 0 =>
                  /\ incoming'.orderId \in DOMAIN orders'
                  /\ orders'[incoming'.orderId].remainingQuantity = remaining
                  /\ orders'[incoming'.orderId].price = incoming'.price
                  /\ incoming'.price \in DOMAIN ownAfter.levels
                  /\ ownAfter.levels[incoming'.price].orderIds =
                       Append(IF incoming'.price \in DOMAIN own.levels
                              THEN own.levels[incoming'.price].orderIds ELSE <<>>,
                              incoming'.orderId)
                  /\ QuantityAt(ownAfter, incoming'.price) =
                       QuantityAt(own, incoming'.price) + remaining
                  /\ WithoutLevel(ownAfter, incoming'.price) =
                       WithoutLevel(own, incoming'.price)
             /\ remaining = 0 =>
                  /\ ownAfter = own
                  /\ incoming'.orderId \notin DOMAIN orders'
             /\ result'.status =
                  IF remaining = 0 THEN "filled"
                  ELSE IF executed > 0 THEN "partially_filled" ELSE "open" ]_vars

\* C12 witness: a GTC limit order was filled in part and its remainder rests
C12_PartialRemainderRests ==
  /\ Submitted
  /\ incoming.orderType = "limit"
  /\ incoming.timeInForce = "GTC"
  /\ result.status = "partially_filled"
  /\ incoming.quantity > result.remainingQuantity
  /\ incoming.orderId \in ListedAt(OwnTree(incoming), incoming.price)
  /\ QuantityAt(OwnTree(incoming), incoming.price) = result.remainingQuantity

\* C13: a limit IOC order is rejected when it executes nothing, partially_filled
\* only when 0 < executed < quantity, and filled only when executed = quantity.
C13_IOCStatus ==
  ( /\ Submitted
    /\ incoming.orderType = "limit"
    /\ incoming.timeInForce = "IOC"
    /\ ValidateOrder(incoming) = "" )
  => /\ result.executedQuantity = 0 => result.status = "rejected"
     /\ result.status = "partially_filled" =>
          (0 < result.executedQuantity /\ result.executedQuantity < incoming.quantity)
     /\ result.status = "filled" => result.executedQuantity = incoming.quantity

\* C14: a market IOC order that met a non-empty opposite side and could not be
\* filled completely is partially_filled, not rejected, with executed > 0 and
\* the fills it produced (one per match of its loop).
C14_MarketIOCPartial ==
  ( /\ Submitted
    /\ incoming.orderType = "market"
    /\ incoming.timeInForce = "IOC"
    /\ Len(matched) > 0
    /\ result.remainingQuantity > 0 )
  => /\ result.status = "partially_filled"
     /\ result.executedQuantity > 0
     /\ Len(result.fills) = Len(matched)
     /\ incoming.orderId \notin DOMAIN orders

\* C15: a processOrder step of a valid market order that finds the opposite
\* side empty rejects it with the no-liquidity message, no fills and executed
\* quantity 0, and leaves both sides, the registry and the last price unchanged.
C15_MarketNoLiquidity ==
  [][ ( /\ nextId' = nextId + 1
        /\ incoming'.orderType = "market"
        /\ ValidateOrder(incoming') = ""
        /\ IsEmpty(IF incoming'.side = "buy" THEN asks ELSE bids) )
      => /\ result'.status = "rejected"
         /\ result'.message = "No liquidity available"
         /\ result'.fills = <<>>
         /\ result'.executedQuantity = 0
         /\ UNCHANGED <<bids, asks, orders, lastPrice>> ]_vars

\* C15 witness: a market order was rejected for no liquidity while orders rest
\* on its own side
C15_RejectedOnOneSidedBook ==
  /\ Submitted
  /\ incoming.orderType = "market"
  /\ result.status = "rejected"
  /\ result.message = "No liquidity available"
  /\ ~IsEmpty(OwnTree(incoming))
  /\ DOMAIN orders # {}

\* C16: a cancelOrder step returns false and changes nothing exactly when the
\* id is not in the registry; when it returns true the order was in the
\* registry and listed in its level, it is deleted from the registry and from
\* the level, the level's total quantity goes down by exactly the order's
\* remaining quantity, and every other level, the other side, every other
\* order and the last price are unchanged.
C16_CancelEffect ==
  [][ (lastOp'.kind = "cancel" /\ lastOp'.tradingPair = TradingPair.symbol)
      => LET id == lastOp'.orderId
         IN  /\ cancelled' = (id \in DOMAIN orders)
             /\ ~cancelled' => UNCHANGED <<bids, asks, orders, lastPrice>>
             /\ cancelled' =>
                  LET order == orders[id]
                      own == IF order.side = "buy" THEN bids ELSE asks
                      ownAfter == IF order.side = "buy" THEN bids' ELSE asks'
                  IN  /\ id \in ListedAt(own, order.price)
                      /\ orders' = MapDelete(orders, id)
                      /\ id \notin ListedAt(ownAfter, order.price)
                      /\ ListedAt(ownAfter, order.price) =
                           ListedAt(own, order.price) \ {id}
                      /\ QuantityAt(ownAfter, order.price) =
                           QuantityAt(own, order.price) - order.remainingQuantity
                      /\ WithoutLevel(ownAfter, order.price) =
                           WithoutLevel(own, order.price)
                      /\ IF order.side = "buy" THEN asks' = asks ELSE bids' = bids
                      /\ lastPrice' = lastPrice ]_vars

\* the positions in redisOps of the events of one kind
EventsOfType(type) ==
  { i \in 1..Len(redisOps) :
      redisOps[i].cmd = "publish" /\ redisOps[i].message.type = type }

\* C19: the events of one processOrder call are published in this order: the
\* trade events of its fills in fill order, then the orderbook snapshot event,
\* and last the order-update event of the incoming order.
C19_EventOrder ==
  Submitted =>
    /\ \A t \in EventsOfType("TRADE_EXECUTED") : \A s \in EventsOfType("ORDERBOOK_UPDATE") :
         t < s
    /\ \A t \in EventsOfType("TRADE_EXECUTED") : \A u \in EventsOfType("NEW_ORDER") :
         t < u
    /\ \A s \in EventsOfType("ORDERBOOK_UPDATE") : \A u \in EventsOfType("NEW_ORDER") :
         s < u

\* C20: a processOrder step that changes the content of either side of the
\* book publishes an orderbook snapshot event for the pair.
C20_BookChangeAnnounced ==
  [][ (nextId' = nextId + 1 /\ (bids' # bids \/ asks' # asks))
      => \E i \in 1..Len(redisOps') :
           /\ redisOps'[i].cmd = "publish"
           /\ redisOps'[i].message.type = "ORDERBOOK_UPDATE"
           /\ redisOps'[i].message.tradingPair = TradingPair.symbol ]_vars

\* order `id` of the registry is all the liquidity of `tree`: the only order
\* of its side, listed alone in the only level, which holds its remaining quantity
OnlyLiquidity(tree, id) ==
  /\ RestingOn(orders[id].side) = {id}
  /\ DOMAIN tree.levels = {orders[id].price}
  /\ tree.levels[orders[id].price].orderIds = <<id>>
  /\ tree.levels[orders[id].price].totalQuantity = orders[id].remainingQuantity

\* C17: cancel(O) racing with a market order on O, the only liquidity of its
\* side, in calls that may overlap.  A cancel returns true exactly when O is
\* still in the registry, then deletes it as cancelled and empties the side,
\* and no call still running has filled O; a market order of O's quantity
\* that finds O fills against it alone and deletes it as filled, so that a
\* later cancel returns false; a market order that finds the side empty is
\* rejected for no liquidity without a fill; and an id that left the registry
\* never returns to it, so O is never both filled and cancelled.
C17_CancelRace ==
  [][ /\ lastOp'.kind = "cancel" =>
           LET id == lastOp'.orderId
           IN  /\ cancelled' = (id \in DOMAIN orders)
               /\ cancelled' =>
                    /\ id \notin DOMAIN orders'
                    /\ dropped'[id].status = "cancelled"
                    /\ \A i \in 1..Len(inflight') : id \notin inflight'[i].filledIds
                    /\ OnlyLiquidity(IF orders[id].side = "buy" THEN bids ELSE asks, id)
                         => IsEmpty(IF orders[id].side = "buy" THEN bids' ELSE asks')
      /\ (nextId' = nextId + 1 /\ incoming'.orderType = "market") =>
           LET opposite == IF incoming'.side = "buy" THEN asks ELSE bids
           IN  /\ IsEmpty(opposite) =>
                    /\ result'.status = "rejected"
                    /\ result'.message = "No liquidity available"
                    /\ matched' = <<>>
                    /\ dropped' = EmptyMap
               /\ \A id \in DOMAIN orders :
                    ( /\ orders[id].side # incoming'.side
                      /\ OnlyLiquidity(opposite, id)
                      /\ incoming'.quantity = orders[id].remainingQuantity )
                    => /\ result'.status = "filled"
                       /\ Len(matched') = 1
                       /\ matched'[1].orderId = id
                       /\ matched'[1].quantity = incoming'.quantity
                       /\ id \notin DOMAIN orders'
                       /\ dropped'[id].status = "filled"
      /\ DOMAIN orders' \ DOMAIN orders \subseteq {nextId}
      /\ nextId' >= nextId ]_vars

\* C17 witness: cancel(O) returned false while the call of the market order
\* that filled O was still publishing
C17_CancelLostTheRace ==
  /\ lastOp.kind = "cancel"
  /\ ~cancelled
  /\ \E i \in 1..Len(inflight) :
       /\ inflight[i].filledIds = {lastOp.orderId}
       /\ \E k \in 1..Len(inflight[i].pending) :
            /\ inflight[i].pending[k].message.type = "NEW_ORDER"
            /\ inflight[i].pending[k].message.order.orderType = "market"
            /\ inflight[i].pending[k].message.order.status = "filled"

\* suspended call c has still to publish an event of one of `types`
PendingOfType(c, types) ==
  \E k \in 1..Len(c.pending) : c.pending[k].message.type \in types

\* C18: when the matching step of call A is done before that of call B begins,
\* no trade event of B is published while A has a trade event or its order
\* update still to publish, and the snapshot A publishes is the snapshot of the
\* book as A's own step left it.
C18_EventsInMatchOrder ==
  [][ /\ \A i \in 1..Len(inflight') : \A j \in 1..Len(inflight') :
           (i < j /\ inflight'[j].fills > 0)
             => ~PendingOfType(inflight'[i], {"TRADE_EXECUTED", "NEW_ORDER"})
      /\ ( /\ lastOp'.kind = "resume"
           /\ redisOps' # <<>>
           /\ redisOps'[1].message.type = "ORDERBOOK_UPDATE" )
         => \A i \in 1..Len(inflight) :
              inflight[i].orderId = lastOp'.orderId
                => redisOps'[1].message.snapshot = inflight[i].after ]_vars

\* the positions in redisOps of the order-update events that carry order `id`
OrderUpdatesOf(id) ==
  { k \in 1..Len(redisOps) :
      /\ redisOps[k].cmd = "publish"
      /\ redisOps[k].message.type \in {"NEW_ORDER", "ORDER_UPDATE"}
      /\ redisOps[k].message.order.orderId = id }

\* C21: for each fill of a processOrder call, an order-update event that
\* carries the new filled quantity of the resting order it filled is published
\* in the same call as the trade event.
C21_RestingOrderUpdates ==
  Submitted =>
    \A i \in 1..Len(matched) :
      matched[i].resting # NoOrder
        => \E k \in OrderUpdatesOf(matched[i].orderId) :
             redisOps[k].message.order.filledQuantity >=
               matched[i].resting.filledQuantity + matched[i].quantity

\* the channel WebSocketServer.setupRedisSubscriptions subscribes to for the
\* trades of a pair
TradeChannel(tradingPair) == <<"market", tradingPair, "trades">>

\* the key getRecentTrades reads the recent trades of a pair from
TradeHistoryKey(tradingPair) == <<"trades", tradingPair, "history">>

\* C22: every trade of a processOrder call on pair P is published on P's trade
\* channel, the channel the subscribers of P's trades listen to, and pushed on
\* the recent-trades list of P.
C22_TradesOnPairChannel ==
  Submitted =>
    \A i \in 1..Len(result.fills) :
      /\ \E k \in 1..Len(redisOps) :
           /\ redisOps[k].cmd = "publish"
           /\ redisOps[k].channel = TradeChannel(incoming.tradingPair)
           /\ redisOps[k].message.trade = result.fills[i]
      /\ \E k \in 1..Len(redisOps) :
           /\ redisOps[k].cmd = "lPush"
           /\ redisOps[k].channel = TradeHistoryKey(incoming.tradingPair)
           /\ redisOps[k].message.trade = result.fills[i]

\* C23: a processOrder call whose order fails validation changes no state of
\* the book and issues no Redis command: no trade, order-update or snapshot
\* event is published.
C23_RejectionSilent ==
  [][ (nextId' = nextId + 1 /\ ValidateOrder(incoming') # "")
      => /\ UNCHANGED <<bids, asks, orders, lastPrice>>
         /\ redisOps' = <<>> ]_vars

\* C24: when processOrder accepts an order (here: one that rests without a
\* fill, so that nothing but the lock moves funds), quantity x price has moved
\* from the user's quoteBalance to lockedQuote for a buy, quantity from
\* baseBalance to lockedBase for a sell, and openOrderCount is one more.
C24_FundLockAtAcceptance ==
  [][ ( /\ nextId' = nextId + 1
        /\ incoming'.orderId \in DOMAIN orders'
        /\ result'.fills = <<>> )
      => LET before == userPositions[incoming'.userId]
             after == userPositions'[incoming'.userId]
             amount == incoming'.quantity * incoming'.price
         IN  /\ after.openOrderCount = before.openOrderCount + 1
             /\ IF incoming'.side = "buy"
                THEN /\ after.quoteBalance = before.quoteBalance - amount
                     /\ after.lockedQuote = before.lockedQuote + amount
                ELSE /\ after.baseBalance = before.baseBalance - incoming'.quantity
                     /\ after.lockedBase = before.lockedBase + incoming'.quantity
    ]_vars

\* the fields of a position that the round trip of C25 is about
Funds(position) ==
  <<position.baseBalance, position.quoteBalance, position.lockedBase,
    position.lockedQuote, position.openOrderCount>>

C26_ValueConserved ==
  \A u \in Traders :
    LET position == userPositions[u]
    IN  /\ position.baseBalance + position.lockedBase =
             DefaultPosition.baseBalance + ledger[u].base
        /\ FeeUnit * (position.quoteBalance + position.lockedQuote) =
             FeeUnit * DefaultPosition.quoteBalance + ledger[u].quote

\* C27: in every position baseBalance, quoteBalance, lockedBase, lockedQuote,
\* dailyVolume and openOrderCount are all at least 0.
C27_PositionNonNegative ==
  \A u \in Traders :
    /\ userPositions[u].baseBalance >= 0
    /\ userPositions[u].quoteBalance >= 0
    /\ userPositions[u].lockedBase >= 0
    /\ userPositions[u].lockedQuote >= 0
    /\ userPositions[u].dailyVolume >= 0
    /\ userPositions[u].openOrderCount >= 0

\* C28: every order the book holds has received a sequence number at its
\* acceptance, and of two such orders the one accepted later (the one with the
\* greater id, ids being given in order of arrival) has the strictly greater
\* sequence number.
C28_SequenceNumbers ==
  \A a \in DOMAIN orders : \A b \in DOMAIN orders :
    a < b => orders[a].sequenceNumber < orders[b].sequenceNumber

TerminalStatuses == {"filled", "cancelled", "rejected"}

\* the ids of the orders the last handler brought to a terminal status: the
\* resting orders it deleted as filled or cancelled, and its own order when the
\* result says filled, cancelled or rejected
TerminalNow ==
  DOMAIN dropped
    \cup (IF Submitted /\ result.status \in TerminalStatuses
          THEN {incoming.orderId} ELSE {})

\* order `id` is in the registry of `book` or listed in a level of either side
Present(book, id) ==
  id \in DOMAIN book.orders \cup ListedIn(book.bids) \cup ListedIn(book.asks)

\* C29: an order that a handler brings to filled, cancelled or rejected is then
\* neither in the registry nor listed in a price level of either side, the
\* registry holds no order of a terminal status whose status could change, and
\* the id of an order that has left the registry and the levels, or has never
\* entered them, is in neither of them after any later step.
C29_TerminalAbsorbing ==
  [][ /\ \A id \in TerminalNow' : ~Present(Book', id)
      /\ \A id \in DOMAIN orders' : orders'[id].status \notin TerminalStatuses
      /\ \A id \in 1..(nextId - 1) : ~Present(Book, id) => ~Present(Book', id)
    ]_vars

\* both orders have traded with each other and are gone, and order 1, filled
\* or cancelled since, is still absent after a later cancel request for it
C29_StaysTerminal ==
  /\ lastOp.kind = "cancel"
  /\ lastOp.tradingPair = TradingPair.symbol
  /\ lastOp.orderId = 1
  /\ ~cancelled
  /\ lastPrice > 0
  /\ nextId = 3
  /\ ~Present(Book, 1)

\* the match is not legal: the quantity is not positive or exceeds the
\* remaining quantity of either order, the price is outside the limit of a
\* limit order, the sides or the pairs do not fit, or both orders have the
\* same userId
IllegalMatch(trade) ==
  \/ trade.quantity <= 0
  \/ trade.quantity > trade.buyOrder.remainingQuantity
  \/ trade.quantity > trade.sellOrder.remainingQuantity
  \/ trade.buyOrder.orderType = "limit" /\ trade.price > trade.buyOrder.price
  \/ trade.sellOrder.orderType = "limit" /\ trade.price < trade.sellOrder.price
  \/ trade.buyOrder.side # "buy"
  \/ trade.sellOrder.side # "sell"
  \/ trade.buyOrder.tradingPair # trade.sellOrder.tradingPair
  \/ trade.buyOrder.userId = trade.sellOrder.userId

\* C30: an executeTrade call for a match that is not legal returns null and
\* leaves both orders, every position and the trade-id counter as they were,
\* and stores and publishes nothing.
C30_IllegalTradeRefused ==
  [][ (lastOp'.kind = "executeTrade" /\ riskCalls' = riskCalls + 1
         /\ IllegalMatch(lastOp'.trade))
      => /\ lastOp'.execution = NoExecution
         /\ lastOp'.buyOrder = lastOp'.trade.buyOrder
         /\ lastOp'.sellOrder = lastOp'.trade.sellOrder
         /\ UNCHANGED <<userPositions, sequenceCounter>>
         /\ redisOps' = <<>> ]_vars

\* after one trade was executed, a trade between two orders of one user,
\* legal in everything else, has been refused
C30_SelfTradeRefused ==
  /\ lastOp.kind = "executeTrade"
  /\ lastOp.trade = [buyOrder |-> [BuyOrderOf(1, 1) EXCEPT !.userId = "u2"],
                     sellOrder |-> SellOrderOf(1, 1), quantity |-> 1, price |-> 1]
  /\ lastOp.execution = NoExecution
  /\ sequenceCounter = 1
  /\ redisOps = <<>>

\* C32: in the OrderResult of every processOrder call, executedQuantity is the
\* sum of the quantities of the fills the result lists, and executedQuantity +
\* remainingQuantity is the quantity submitted.
C32_ResultAddsUp ==
  Submitted =>
    /\ result.executedQuantity = SumQuantity(result.fills)
    /\ result.executedQuantity + result.remainingQuantity = incoming.quantity

\* the sum of totalQuantity over the levels of `tree` at the prices in `prices`
RECURSIVE LevelQuantity(_, _)
LevelQuantity(tree, prices) ==
  IF prices = {} THEN 0
  ELSE LET price == CHOOSE p \in prices : TRUE
       IN  tree.levels[price].totalQuantity + LevelQuantity(tree, prices \ {price})

\* the quantity resting on one side of the book
TotalQuantity(tree) == LevelQuantity(tree, DOMAIN tree.levels)

\* C33: the quantity a processOrder call removes from the side opposite to its
\* order is the sum of the quantities of the fills its result lists and of the
\* trade events it publishes; a call that returns no fills removes none.
C33_LiquidityNeedsTrade ==
  [][ (nextId' = nextId + 1 /\ incoming'.orderId # NoOrderId
         /\ incoming'.side \in Sides)
      => LET before == IF incoming'.side = "buy" THEN asks ELSE bids
             after == IF incoming'.side = "buy" THEN asks' ELSE bids'
         IN  /\ TotalQuantity(before) - TotalQuantity(after) =
                  SumQuantity(result'.fills)
             /\ Cardinality({ k \in 1..Len(redisOps') :
                   /\ redisOps'[k].cmd = "lPush"
                   /\ redisOps'[k].message.type = "TRADE_EXECUTED" }) =
                  Len(result'.fills) ]_vars

\* C34: after every processOrder or cancelOrder call, if both sides of the book
\* have a level then the best bid price is strictly lower than the best ask
\* price.
C34_NeverCrossed ==
  (~IsEmpty(bids) /\ ~IsEmpty(asks)) => GetBestPrice(bids) < GetBestPrice(asks)

\* a limit order that does not cross the other side has come to rest opposite
\* to a resting order
C34_BothSidesRest ==
  /\ Submitted
  /\ incoming.orderType = "limit"
  /\ result.status = "open"
  /\ ~IsEmpty(bids)
  /\ ~IsEmpty(asks)

\* the messages of the checks of validateOrder
ValidationMessages ==
  {"Order size below minimum", "Order size above maximum",
   "Limit orders must have a positive price"}

\* the order is outside the bounds of the pair: its quantity is below the
\* minimum or above the maximum order size, or it is a limit order of price <= 0
OutOfBounds(order) ==
  \/ order.quantity < TradingPair.minOrderSize
  \/ order.quantity > TradingPair.maxOrderSize
  \/ order.orderType = "limit" /\ order.price <= 0

\* C35: a processOrder call for an order outside the bounds of the pair is
\* rejected with no fills and leaves the book unchanged, and an order within
\* the bounds is never rejected with a message of the validation.
C35_Validation ==
  [][ (nextId' = nextId + 1 /\ incoming'.orderId # NoOrderId)
      => IF OutOfBounds(incoming')
         THEN /\ result'.status = "rejected"
              /\ result'.fills = <<>>
              /\ result'.executedQuantity = 0
              /\ UNCHANGED <<bids, asks, orders, lastPrice>>
         ELSE result'.message \notin ValidationMessages ]_vars

\* an order above the maximum size has been rejected while an order rests
C35_OversizeRejected ==
  /\ Submitted
  /\ incoming.quantity > TradingPair.maxOrderSize
  /\ result.status = "rejected"
  /\ orders # EmptyMap

\* C37: after a processOrder call that reports fills the last trade price is
\* the price of the last fill it reports; a processOrder call that reports no
\* fill, and a cancelOrder call, leave the last trade price as it was.
C37_LastTradePrice ==
  [][ /\ (nextId' = nextId + 1 /\ incoming'.orderId # NoOrderId)
         => IF result'.fills # <<>>
            THEN lastPrice' = result'.fills[Len(result'.fills)].price
            ELSE lastPrice' = lastPrice
      /\ lastOp'.kind = "cancel" => lastPrice' = lastPrice ]_vars

\* the least (ascending) or greatest (descending) of a non-empty set of prices
BestOf(prices, isAscending) ==
  CHOOSE p \in prices :
    \A q \in prices : IF isAscending THEN p <= q ELSE p >= q

\* the ordered price list of `tree` is strictly ascending or descending as
\* the tree was constructed (hence without duplicates) and holds exactly the
\* prices that have a level, and getBestPrice returns the best of them, or
\* null when there is none
IndexOrdered(tree) ==
  /\ \A i \in 1..Len(tree.sortedPrices) : \A j \in 1..Len(tree.sortedPrices) :
       i < j => IF tree.isAscending
                THEN tree.sortedPrices[i] < tree.sortedPrices[j]
                ELSE tree.sortedPrices[i] > tree.sortedPrices[j]
  /\ SeqToSet(tree.sortedPrices) = DOMAIN tree.levels
  /\ GetBestPrice(tree) =
       IF DOMAIN tree.levels = {} THEN NoPrice
       ELSE BestOf(DOMAIN tree.levels, tree.isAscending)

\* C38: after any sequence of addOrder and removeOrder calls the price list of
\* the ask tree is strictly ascending and that of the bid tree strictly
\* descending, each holds exactly the prices that have a level, and
\* getBestPrice returns the lowest ask and the highest bid, or null.
C38_IndexOrdered ==
  /\ asks.isAscending /\ ~bids.isAscending
  /\ IndexOrdered(asks)
  /\ IndexOrdered(bids)

\* every addOrder call has been made and a removeOrder call has left a tree
\* with a level
C38_LevelLeft ==
  \E tree \in {bids, asks} :
    /\ tree.sortedPrices # <<>>
    /\ lastOp.kind = "removeOrder"
    /\ nextId = MaxTreeCalls + 1

\* C36: lockFunds returns true only if the quote balance covers quantity x
\* price (buy) or the base balance covers the quantity (sell); when it returns
\* false every field of the position, openOrderCount included, is as before;
\* when it returns true balance + locked is as before for both assets; no
\* other user's position changes.
C36_LockFundsAdequacy ==
  [][ lastOp'.kind = "lockFunds"
      => LET call == lastOp'
             before == userPositions[call.userId]
             after == userPositions'[call.userId]
         IN  /\ call.returned =>
                  IF call.side = "buy"
                  THEN before.quoteBalance >= call.quantity * call.price
                  ELSE before.baseBalance >= call.quantity
             /\ ~call.returned => after = before
             /\ call.returned =>
                  /\ after.baseBalance + after.lockedBase
                       = before.baseBalance + before.lockedBase
                  /\ after.quoteBalance + after.lockedQuote
                       = before.quoteBalance + before.lockedQuote
             /\ \A u \in Traders \ {call.userId} :
                  userPositions'[u] = userPositions[u] ]_vars

\* a lock has been refused to a user who holds a lock already
C36_LockRefused ==
  /\ lastOp.kind = "lockFunds"
  /\ ~lastOp.returned
  /\ userPositions[lastOp.userId].openOrderCount > 0

\* C39: the fee rate stays within [0, 0.01]; setFeeRate with a rate outside
\* that range leaves the fee rate as it was, with a rate inside it the fee
\* rate becomes that rate, and no other call changes the fee rate.
C39_FeeRateBounded ==
  [][ /\ feeRate' >= 0 /\ feeRate' <= MaxFeeRate
      /\ lastOp'.kind = "setFeeRate"
           => feeRate' = IF lastOp'.rate \in 0..MaxFeeRate
                         THEN lastOp'.rate ELSE feeRate
      /\ lastOp'.kind # "setFeeRate" => feeRate' = feeRate ]_vars

\* a rate above the range has been refused after the rate had been changed
C39_RateRefused ==
  /\ lastOp.kind = "setFeeRate"
  /\ lastOp.rate > MaxFeeRate
  /\ feeRate \in 0..MaxFeeRate
  /\ feeRate # DefaultFeeRate

\* the filled and remaining quantity and the status of an order
Progress(order) ==
  <<order.filledQuantity, order.remainingQuantity, order.status>>

\* C31: when the store of the execution record of a valid trade fails inside
\* executeTrade, nothing is returned, neither order's filled or remaining
\* quantity or status is changed, no position is changed and nothing is
\* published; when it succeeds both orders are filled by the matched quantity
\* and the position of the owner of each order is updated by the trade.
C31_FillAtomic ==
  [][ ( /\ lastOp'.kind = "executeTrade"
        /\ ValidateTradeExecution(lastOp'.trade.buyOrder, lastOp'.trade.sellOrder,
                                  lastOp'.trade.quantity, lastOp'.trade.price) )
      => LET call == lastOp'
             trade == call.trade
         IN  IF call.redis # "ok"
             THEN /\ call.execution = NoExecution
                  /\ Progress(call.buyOrder) = Progress(trade.buyOrder)
                  /\ Progress(call.sellOrder) = Progress(trade.sellOrder)
                  /\ userPositions' = userPositions
                  /\ ledger' = ledger
                  /\ redisOps' = <<>>
             ELSE /\ call.execution # NoExecution
                  /\ call.buyOrder.filledQuantity
                       = trade.buyOrder.filledQuantity + trade.quantity
                  /\ call.buyOrder.remainingQuantity
                       = trade.buyOrder.remainingQuantity - trade.quantity
                  /\ call.sellOrder.filledQuantity
                       = trade.sellOrder.filledQuantity + trade.quantity
                  /\ call.sellOrder.remainingQuantity
                       = trade.sellOrder.remainingQuantity - trade.quantity
                  /\ call.buyOrder.status \in {"filled", "partially_filled"}
                  /\ call.sellOrder.status \in {"filled", "partially_filled"}
                  /\ trade.buyOrder.userId # Undefined
                       => userPositions'[trade.buyOrder.userId].baseBalance
                            = userPositions[trade.buyOrder.userId].baseBalance
                                + trade.quantity
                  /\ trade.sellOrder.userId # Undefined
                       => userPositions'[trade.sellOrder.userId].baseBalance
                            = userPositions[trade.sellOrder.userId].baseBalance
                                - trade.quantity ]_vars

\* the store of a valid trade has failed after an earlier trade was executed
C31_WriteFailed ==
  /\ lastOp.kind = "executeTrade"
  /\ lastOp.redis = "error"
  /\ ValidateTradeExecution(lastOp.trade.buyOrder, lastOp.trade.sellOrder,
                            lastOp.trade.quantity, lastOp.trade.price)
  /\ lastOp.execution = NoExecution
  /\ sequenceCounter > 1

\* C40: every fill a submit reports carries a trade id of the form
\* trade_<ms-epoch>_<seq> whose seq was drawn from the engine's counter, and
\* the seq of the fills increases strictly in the order they were made, so
\* that no two fills share a trade id.
C40_TradeIdsCounted ==
  Submitted =>
    /\ \A k \in 1..Len(result.fills) :
         /\ result.fills[k].tradeId[1] = "trade"
         /\ Len(result.fills[k].tradeId) = 2
         /\ result.fills[k].tradeId[2] \in 1..sequenceCounter
    /\ \A j \in 1..Len(result.fills) : \A k \in 1..Len(result.fills) :
         j < k => result.fills[j].tradeId[2] < result.fills[k].tradeId[2]

====
